---- MODULE Spec2Model ----
(***************************************************************************)
(* A model of CardShuffler<T> (CardShuffler.h): the deck, GenerateDeck,    *)
(* ResetDeck, PerformShuffle for the six shuffle types, IsDeckRestored and *)
(* the RestoreDeck loop.  Vector positions are 0-based as in the source;   *)
(* At, Put and Slice translate them to TLA+ sequences.                     *)
(***************************************************************************)
EXTENDS Integers, Sequences, FiniteSets, TLC

\* Largest deck GenerateDeck is asked for in Spec.
MaxDeck == 4

\* Largest number of iterations of the RestoreDeck loop that Spec follows.
MaxShuffles == 6

\* Largest deck whose arrangements ShuffleSpec starts from.
MaxRiffleDeck == 5

\* Largest deck ShuffleSpec starts from in ascending order.
MaxSortedDeck == 9

\* Number of consecutive PerformShuffle calls ShuffleSpec records.
MaxTrail == 2

\* const size_t MIN_DECK_SIZE = 3;
MIN_DECK_SIZE == 3

\* The deck size of the classic order law (8 out-shuffles, 52 in-shuffles).
ClassicSizes == {52}

ShuffleType ==
    {"STL_SHUFFLE", "FISHER_YATES", "OUTSHUFFLE", "INSHUFFLE",
     "INV_OUTSHUFFLE", "INV_INSHUFFLE"}

\* The kinds that never consult m_urng, and the kinds that do.
Riffles == {"OUTSHUFFLE", "INSHUFFLE", "INV_OUTSHUFFLE", "INV_INSHUFFLE"}

Randomized == {"STL_SHUFFLE", "FISHER_YATES"}

VARIABLES
    m_deck,         \* std::vector<T> m_deck
    m_deckSize,     \* size_t m_deckSize
    m_bIsDeckOdd,   \* bool m_bIsDeckOdd
    pc,             \* "idle": no call in progress; "restore": inside the
                    \* do-while of RestoreDeck; "crashed"/"hung": after
                    \* undefined behaviour
    shuffle,        \* RestoreDeck's argument while the loop runs
    nShuffles,      \* RestoreDeck's local counter
    ret,            \* what the last completed call returned
    entryRestored,  \* history: IsDeckRestored() when RestoreDeck was entered
    applied,        \* history: PerformShuffle calls made by this RestoreDeck
    pre,            \* history (ShuffleSpec): the deck before the recorded calls
    trail           \* history (ShuffleSpec): the kinds of the recorded calls

vars ==
    <<m_deck, m_deckSize, m_bIsDeckOdd, pc, shuffle, nShuffles, ret,
      entryRestored, applied, pre, trail>>

----------------------------------------------------------------------------
\* Vectors

min(a, b) == IF a < b THEN a ELSE b

At(v, i) == v[i + 1]

Put(v, i, x) == [v EXCEPT ![i + 1] = x]

\* std::vector<T>(v.begin() + b, v.begin() + e)
Slice(v, b, e) == SubSeq(v, b + 1, e)

\* std::copy(src.begin(), src.end(), dest.begin() + off)
copy(src, dest, off) ==
    [i \in 1..Len(dest) |->
        IF i - 1 >= off /\ i - 1 < off + Len(src)
        THEN src[i - off] ELSE dest[i]]

\* Mutant: the cards numbered from 1.
Canonical_FromOne(size) == [i \in 1..size |-> i]

\* for (i = 0; i < size; i++) m_deck.push_back(i);
Canonical(size) == [i \in 1..size |-> i - 1]

\* Mutant: only the first two items compared.
is_sorted_FirstPair(v) == Len(v) < 2 \/ ~(v[2] < v[1])

\* std::is_sorted(m_deck.begin(), m_deck.end())
is_sorted(v) == \A i \in 1..(Len(v) - 1) : ~(v[i + 1] < v[i])

IsDeckRestored == is_sorted(m_deck)

----------------------------------------------------------------------------
\* PerformShuffle, one operator per case of the switch

\* Mutant: the second destination also takes *srcBegin.
copy_every_n_SameItem(src, b, e, dest1, dest2, n) ==
    LET cnt == (e - b) \div n
    IN  << [k \in 1..Len(dest1) |->
               IF k <= cnt THEN At(src, b + (k - 1) * n) ELSE dest1[k]],
           [k \in 1..Len(dest2) |->
               IF k <= cnt THEN At(src, b + (k - 1) * n) ELSE dest2[k]] >>

\* copy_every_n(srcBegin, srcEnd, destVector1, destVector2, n), with the source
\* range given as positions [b, e) of src: distance/n iterations, the k-th
\* writes src[b + k*n] to dest1[k] and src[b + k*n + 1] to dest2[k].
copy_every_n(src, b, e, dest1, dest2, n) ==
    LET cnt == (e - b) \div n
    IN  << [k \in 1..Len(dest1) |->
               IF k <= cnt THEN At(src, b + (k - 1) * n) ELSE dest1[k]],
           [k \in 1..Len(dest2) |->
               IF k <= cnt THEN At(src, b + (k - 1) * n + 1) ELSE dest2[k]] >>

\* Mutant: the odd inverse out-shuffle written back as xAB, the order the
\* comment in the source names, instead of xBA.
InverseShuffle_xAB(shuffleType, deck, deckSize, isOdd) ==
    LET half1 == IF isOdd THEN deckSize \div 2 ELSE (deckSize + 1) \div 2
        half2 == deckSize - half1
        minSize == min(half1, half2)
        empty == [k \in 1..minSize |-> 0]
        n == Len(deck)
    IN  IF shuffleType = "INV_INSHUFFLE"
        THEN LET h == copy_every_n(deck, 0, IF isOdd THEN n - 1 ELSE n, empty, empty, 2)
             IN  copy(h[1], copy(h[2], deck, 0), half1)
        ELSE IF isOdd
             THEN LET h == copy_every_n(deck, 1, n, empty, empty, 2)
                  IN  copy(h[2], copy(h[1], deck, 1), half1 + 1)
             ELSE LET h == copy_every_n(deck, 0, n, empty, empty, 2)
                  IN  copy(h[2], copy(h[1], deck, 0), half1)

\* case INV_INSHUFFLE / INV_OUTSHUFFLE.  The two halves are std::vector<int>
\* of minSize zeros; the deck's values 0..N-1 pass through int unchanged.
InverseShuffle(shuffleType, deck, deckSize, isOdd) ==
    LET half1 == IF isOdd THEN deckSize \div 2 ELSE (deckSize + 1) \div 2
        half2 == deckSize - half1
        minSize == min(half1, half2)
        empty == [k \in 1..minSize |-> 0]
        n == Len(deck)
    IN  IF shuffleType = "INV_INSHUFFLE"
        THEN IF isOdd
             THEN LET h == copy_every_n(deck, 0, n - 1, empty, empty, 2)
                  IN  copy(h[1], copy(h[2], deck, 0), half1)
             ELSE LET h == copy_every_n(deck, 0, n, empty, empty, 2)
                  IN  copy(h[1], copy(h[2], deck, 0), half1)
        ELSE IF isOdd
             THEN LET h == copy_every_n(deck, 1, n, empty, empty, 2)
                  IN  copy(h[1], copy(h[2], deck, 1), half1 + 1)
             ELSE LET h == copy_every_n(deck, 0, n, empty, empty, 2)
                  IN  copy(h[2], copy(h[1], deck, 0), half1)

\* Mutant: the in- and the out-interleaving exchanged.
InterleaveStep_Swapped(shuffleType, deck, vecFirstHalf, vecSecondHalf, i) ==
    IF shuffleType = "INSHUFFLE"
    THEN Put(Put(deck, 2 * i, At(vecFirstHalf, i)), 2 * i + 1, At(vecSecondHalf, i))
    ELSE Put(Put(deck, 2 * i, At(vecSecondHalf, i)), 2 * i + 1, At(vecFirstHalf, i))

\* One pass of the interleaving for-loop body: writes positions nIndex and
\* nIndex + 1 of the deck.
InterleaveStep(shuffleType, deck, vecFirstHalf, vecSecondHalf, i) ==
    IF shuffleType = "INSHUFFLE"
    THEN Put(Put(deck, 2 * i, At(vecSecondHalf, i)), 2 * i + 1, At(vecFirstHalf, i))
    ELSE Put(Put(deck, 2 * i, At(vecFirstHalf, i)), 2 * i + 1, At(vecSecondHalf, i))

RECURSIVE Interleave(_, _, _, _, _, _)
\* for (nIndex = 0, i = 0; i < minSize; i++, nIndex += 2)
Interleave(shuffleType, deck, vecFirstHalf, vecSecondHalf, i, minSize) ==
    IF i < minSize
    THEN Interleave(shuffleType,
                    InterleaveStep(shuffleType, deck, vecFirstHalf, vecSecondHalf, i),
                    vecFirstHalf, vecSecondHalf, i + 1, minSize)
    ELSE deck

\* Mutant: the last card of an odd deck is never assigned.
RiffleShuffle_NoTail(shuffleType, deck, deckSize, isOdd) ==
    LET half1 == IF shuffleType = "INSHUFFLE"
                 THEN deckSize \div 2 ELSE (deckSize + 1) \div 2
        half2 == deckSize - half1
        minSize == min(half1, half2)
        vecFirstHalf == Slice(deck, 0, half1)
        vecSecondHalf == Slice(deck, half1, Len(deck))
    IN  Interleave(shuffleType, deck, vecFirstHalf, vecSecondHalf, 0, minSize)

\* Mutant: the first half of the out-shuffle sized as the in-shuffle's.
RiffleShuffle_FloorHalf(shuffleType, deck, deckSize, isOdd) ==
    LET half1 == deckSize \div 2
        half2 == deckSize - half1
        minSize == min(half1, half2)
        vecFirstHalf == Slice(deck, 0, half1)
        vecSecondHalf == Slice(deck, half1, Len(deck))
        woven == Interleave(shuffleType, deck, vecFirstHalf, vecSecondHalf, 0, minSize)
    IN  IF isOdd
        THEN IF shuffleType = "INSHUFFLE"
             THEN Put(woven, deckSize - 1, At(vecSecondHalf, half2 - 1))
             ELSE Put(woven, deckSize - 1, At(vecFirstHalf, half1 - 1))
        ELSE woven

\* case OUTSHUFFLE / INSHUFFLE
RiffleShuffle(shuffleType, deck, deckSize, isOdd) ==
    LET half1 == IF shuffleType = "INSHUFFLE"
                 THEN deckSize \div 2 ELSE (deckSize + 1) \div 2
        half2 == deckSize - half1
        minSize == min(half1, half2)
        vecFirstHalf == Slice(deck, 0, half1)
        vecSecondHalf == Slice(deck, half1, Len(deck))
        woven == Interleave(shuffleType, deck, vecFirstHalf, vecSecondHalf, 0, minSize)
    IN  IF isOdd
        THEN IF shuffleType = "INSHUFFLE"
             THEN Put(woven, deckSize - 1, At(vecSecondHalf, half2 - 1))
             ELSE Put(woven, deckSize - 1, At(vecFirstHalf, half1 - 1))
        ELSE woven

\* case STL_SHUFFLE: std::shuffle with m_urng leaves the items in some order;
\* every order is a possible result.
StlShuffle(deck) ==
    IF Len(deck) = 0 THEN {deck}
    ELSE {[i \in 1..Len(deck) |-> deck[p[i]]] : p \in Permutations(1..Len(deck))}

swap(deck, i, j) == Put(Put(deck, i, At(deck, j)), j, At(deck, i))

RECURSIVE FisherYatesFrom(_, _)
\* case FISHER_YATES: for (i = m_deckSize - 1; i > 0; --i), each swapIndex
\* drawn from [0, i]; the set of decks the draws can produce.
FisherYatesFrom(deck, i) ==
    IF i > 0
    THEN UNION {FisherYatesFrom(swap(deck, i, swapIndex), i - 1) : swapIndex \in 0..i}
    ELSE {deck}

\* With m_deckSize = 0 the loop of FISHER_YATES starts at i = size_t(-1) and
\* indexes the empty vector: undefined behaviour.
ShuffleIsUndefined(shuffleType, deckSize) ==
    shuffleType = "FISHER_YATES" /\ deckSize = 0

\* What the build can do on undefined behaviour: abort, or never come back.
UndefinedOutcomes == {"crashed", "hung"}

\* The decks one PerformShuffle(shuffleType) call can leave.
Shuffled(shuffleType, deck, deckSize, isOdd) ==
    CASE shuffleType = "STL_SHUFFLE" -> StlShuffle(deck)
      [] shuffleType = "FISHER_YATES" -> FisherYatesFrom(deck, deckSize - 1)
      [] shuffleType \in {"INV_INSHUFFLE", "INV_OUTSHUFFLE"} ->
            {InverseShuffle(shuffleType, deck, deckSize, isOdd)}
      [] shuffleType \in {"OUTSHUFFLE", "INSHUFFLE"} ->
            {RiffleShuffle(shuffleType, deck, deckSize, isOdd)}

----------------------------------------------------------------------------
\* The engine

NoReturn == [op |-> "none", kind |-> "none", size |-> 0, deck |-> <<>>, count |-> 0]

Returned(op, kind, size, deck, count) ==
    [op |-> op, kind |-> kind, size |-> size, deck |-> deck, count |-> count]

\* CardShuffler(): an empty deck, size 0, even.
Init ==
    /\ m_deck = <<>>
    /\ m_deckSize = 0
    /\ m_bIsDeckOdd = FALSE
    /\ pc = "idle"
    /\ shuffle = "none"
    /\ nShuffles = 0
    /\ ret = NoReturn
    /\ entryRestored = FALSE
    /\ applied = 0
    /\ pre = <<>>
    /\ trail = <<>>

\* The history of a RestoreDeck call ends with the next call of the host.
ForgetRestore ==
    /\ entryRestored' = FALSE
    /\ applied' = 0

\* The body of GenerateDeck(size) on the members: nothing for an invalid size,
\* a fresh ascending deck otherwise.
Generate(size) ==
    IF size < MIN_DECK_SIZE
    THEN UNCHANGED <<m_deck, m_deckSize, m_bIsDeckOdd>>
    ELSE /\ m_deck' = Canonical(size)
         /\ m_deckSize' = size
         /\ m_bIsDeckOdd' = ((size % 2) = 1)

\* std::vector<T> GenerateDeck(size_t size)
GenerateDeck(size) ==
    /\ pc = "idle"
    /\ Generate(size)
    /\ ret' = Returned("GenerateDeck", "none", size,
                       IF size < MIN_DECK_SIZE THEN <<>> ELSE m_deck', 0)
    /\ ForgetRestore
    /\ UNCHANGED <<pc, shuffle, nShuffles, pre, trail>>

\* void ResetDeck(): GenerateDeck(m_deck.size()), its result dropped
ResetDeck ==
    /\ pc = "idle"
    /\ Generate(Len(m_deck))
    /\ ret' = Returned("ResetDeck", "none", 0, <<>>, 0)
    /\ ForgetRestore
    /\ UNCHANGED <<pc, shuffle, nShuffles, pre, trail>>

\* The effect of one PerformShuffle(shuffleType) on m_deck, or the outcome of
\* its undefined behaviour.
Perform(shuffleType) ==
    IF ShuffleIsUndefined(shuffleType, m_deckSize)
    THEN /\ pc' \in UndefinedOutcomes
         /\ UNCHANGED m_deck
    ELSE /\ m_deck' \in Shuffled(shuffleType, m_deck, m_deckSize, m_bIsDeckOdd)
         /\ UNCHANGED pc

\* void PerformShuffle(ShuffleType shuffleType), called by the host
PerformShuffleCall(shuffleType) ==
    /\ pc = "idle"
    /\ Perform(shuffleType)
    /\ ret' = Returned("PerformShuffle", "none", 0, <<>>, 0)
    /\ ForgetRestore
    /\ UNCHANGED <<m_deckSize, m_bIsDeckOdd, shuffle, nShuffles>>

PerformShuffle(shuffleType) ==
    /\ PerformShuffleCall(shuffleType)
    /\ UNCHANGED <<pre, trail>>

\* PerformShuffle with the call recorded: the deck it found is appended to pre,
\* its kind to trail.
RecordedShuffle(shuffleType) ==
    /\ Len(trail) < MaxTrail
    /\ PerformShuffleCall(shuffleType)
    /\ pre' = Append(pre, m_deck)
    /\ trail' = Append(trail, shuffleType)

\* Mutant: the counter starts at 1.
RestoreDeck_StartsAtOne(shuffleType) ==
    /\ pc = "idle"
    /\ pc' = "restore"
    /\ shuffle' = shuffleType
    /\ nShuffles' = 1
    /\ ret' = NoReturn
    /\ entryRestored' = IsDeckRestored
    /\ applied' = 0
    /\ UNCHANGED <<m_deck, m_deckSize, m_bIsDeckOdd, pre, trail>>

\* unsigned int RestoreDeck(ShuffleType shuffle): entry, nShuffles = 0
RestoreDeck(shuffleType) ==
    /\ pc = "idle"
    /\ pc' = "restore"
    /\ shuffle' = shuffleType
    /\ nShuffles' = 0
    /\ ret' = NoReturn
    /\ entryRestored' = IsDeckRestored
    /\ applied' = 0
    /\ UNCHANGED <<m_deck, m_deckSize, m_bIsDeckOdd, pre, trail>>

\* Mutant: a while loop, the test made before the shuffle.
RestoreIteration_TestFirst ==
    /\ pc = "restore"
    /\ IF IsDeckRestored
       THEN /\ pc' = "idle"
            /\ ret' = Returned("RestoreDeck", shuffle, 0, <<>>, nShuffles)
            /\ shuffle' = "none"
            /\ nShuffles' = 0
            /\ UNCHANGED <<m_deck, applied>>
       ELSE /\ ~ShuffleIsUndefined(shuffle, m_deckSize)
            /\ m_deck' \in Shuffled(shuffle, m_deck, m_deckSize, m_bIsDeckOdd)
            /\ applied' = applied + 1
            /\ nShuffles' = nShuffles + 1
            /\ UNCHANGED <<pc, shuffle, ret>>
    /\ UNCHANGED <<m_deckSize, m_bIsDeckOdd, entryRestored, pre, trail>>

\* One iteration of the do-while: nShuffles++, PerformShuffle(shuffle), then
\* the test; the loop is left, and nShuffles returned, when the deck is sorted.
RestoreIteration ==
    /\ pc = "restore"
    /\ IF ShuffleIsUndefined(shuffle, m_deckSize)
       THEN /\ pc' \in UndefinedOutcomes
            /\ UNCHANGED <<m_deck, shuffle, nShuffles, ret, applied>>
       ELSE /\ m_deck' \in Shuffled(shuffle, m_deck, m_deckSize, m_bIsDeckOdd)
            /\ applied' = applied + 1
            /\ IF is_sorted(m_deck')
               THEN /\ pc' = "idle"
                    /\ ret' = Returned("RestoreDeck", shuffle, 0, <<>>, nShuffles + 1)
                    /\ shuffle' = "none"
                    /\ nShuffles' = 0
               ELSE /\ pc' = "restore"
                    /\ nShuffles' = nShuffles + 1
                    /\ UNCHANGED <<shuffle, ret>>
    /\ UNCHANGED <<m_deckSize, m_bIsDeckOdd, entryRestored, pre, trail>>

\* The loop as Spec follows it: at most MaxShuffles iterations (the source has
\* no cap; nShuffles is an unsigned int and stays far below 2^32 here).
RestoreStep ==
    /\ nShuffles < MaxShuffles
    /\ RestoreIteration

Next ==
    \/ \E size \in 0..MaxDeck : GenerateDeck(size)
    \/ ResetDeck
    \/ \E shuffleType \in ShuffleType : PerformShuffle(shuffleType)
    \/ \E shuffleType \in ShuffleType : RestoreDeck(shuffleType)
    \/ RestoreStep

Spec == Init /\ [][Next]_vars

\* The engine driven with the riffle kinds only, which never consult m_urng.
RiffleNext ==
    \/ \E size \in 0..MaxDeck : GenerateDeck(size)
    \/ ResetDeck
    \/ \E shuffleType \in Riffles : PerformShuffle(shuffleType)
    \/ \E shuffleType \in Riffles : RestoreDeck(shuffleType)
    \/ RestoreStep

\* RestoreDeck runs on the caller's thread to completion: a started loop keeps
\* iterating.
RiffleFairSpec == Init /\ [][RiffleNext]_vars /\ WF_vars(RestoreStep)

----------------------------------------------------------------------------
\* The riffle shuffles on every arrangement

\* The engine after GenerateDeck(size) and PerformShuffle(STL_SHUFFLE): a deck
\* of size MIN_DECK_SIZE..MaxRiffleDeck in any arrangement, and the larger
\* decks up to MaxSortedDeck in the arrangement STL_SHUFFLE can always leave,
\* the ascending one.
ShuffleInit ==
    /\ \E size \in MIN_DECK_SIZE..MaxSortedDeck :
          /\ m_deck \in IF size <= MaxRiffleDeck
                         THEN StlShuffle(Canonical(size))
                         ELSE {Canonical(size)}
          /\ m_deckSize = size
          /\ m_bIsDeckOdd = ((size % 2) = 1)
    /\ pc = "idle"
    /\ shuffle = "none"
    /\ nShuffles = 0
    /\ ret = Returned("PerformShuffle", "none", 0, <<>>, 0)
    /\ entryRestored = FALSE
    /\ applied = 0
    /\ pre = <<>>
    /\ trail = <<>>

ShuffleNext == \E shuffleType \in Riffles : RecordedShuffle(shuffleType)

ShuffleSpec == ShuffleInit /\ [][ShuffleNext]_vars

----------------------------------------------------------------------------
\* RestoreDeck with the riffle shuffles on the classic deck

\* The engine after GenerateDeck(size) on a new CardShuffler.
ClassicInit ==
    /\ \E size \in ClassicSizes :
          /\ m_deck = Canonical(size)
          /\ m_deckSize = size
          /\ m_bIsDeckOdd = ((size % 2) = 1)
          /\ ret = Returned("GenerateDeck", "none", size, m_deck, 0)
    /\ pc = "idle"
    /\ shuffle = "none"
    /\ nShuffles = 0
    /\ entryRestored = FALSE
    /\ applied = 0
    /\ pre = <<>>
    /\ trail = <<>>

ClassicNext ==
    \/ \E shuffleType \in Riffles : RestoreDeck(shuffleType)
    \/ RestoreIteration

ClassicSpec == ClassicInit /\ [][ClassicNext]_vars

----------------------------------------------------------------------------

\* Properties

Generated == m_deckSize >= MIN_DECK_SIZE

IsCanonical(deck) ==
    \A i \in 1..Len(deck) : deck[i] = i - 1

\* The deck the n-th recorded call left.
DeckAfter(n) == IF n = Len(trail) THEN m_deck ELSE pre[n + 1]

InverseOf(shuffleType) ==
    CASE shuffleType = "OUTSHUFFLE" -> "INV_OUTSHUFFLE"
      [] shuffleType = "INSHUFFLE" -> "INV_INSHUFFLE"
      [] OTHER -> "none"

\* C1: a recorded OUTSHUFFLE followed by INV_OUTSHUFFLE, or INSHUFFLE followed
\* by INV_INSHUFFLE, leaves the deck in the arrangement it had before the first
\* of the two calls, for every size and arrangement.
C1_RoundTrip ==
    \A n \in 2..Len(trail) :
        (trail[n - 1] \in {"OUTSHUFFLE", "INSHUFFLE"}
            /\ trail[n] = InverseOf(trail[n - 1]))
        => DeckAfter(n) = pre[n - 1]

\* An in-shuffle of an odd deck that was not in ascending order, undone.
C1_Witness ==
    /\ trail = <<"INSHUFFLE", "INV_INSHUFFLE">>
    /\ m_bIsDeckOdd
    /\ ~IsCanonical(pre[1])
    /\ pre[2] # pre[1]
    /\ m_deck = pre[1]

\* C2: once a deck of size N >= 3 has been generated, the deck holds exactly N
\* items and each of 0..N-1 exactly once, in every state, the states inside the
\* RestoreDeck loop included.
C2_Permutation ==
    Generated =>
        /\ Len(m_deck) = m_deckSize
        /\ \A x \in 0..(m_deckSize - 1) :
              Cardinality({i \in 1..Len(m_deck) : m_deck[i] = x}) = 1

\* Inside RestoreDeck(FISHER_YATES), after two shuffles of an odd deck.
C2_Witness ==
    /\ pc = "restore"
    /\ shuffle = "FISHER_YATES"
    /\ nShuffles = 2
    /\ m_bIsDeckOdd
    /\ ~IsCanonical(m_deck)

\* C3: right after GenerateDeck(N) with N >= 3 the deck is 0, 1, ..., N-1, the
\* call returned that sequence, size N and parity (N odd) are recorded and
\* IsDeckRestored() is true, whatever the engine held before.
C3_GenerateDeck ==
    (ret.op = "GenerateDeck" /\ ret.size >= MIN_DECK_SIZE) =>
        /\ Len(m_deck) = ret.size
        /\ IsCanonical(m_deck)
        /\ ret.deck = m_deck
        /\ m_deckSize = ret.size
        /\ m_bIsDeckOdd = (ret.size % 2 = 1)
        /\ IsDeckRestored

\* GenerateDeck(3) has just returned the odd deck 0, 1, 2.
C3_Witness ==
    /\ ret.op = "GenerateDeck"
    /\ ret.size = MIN_DECK_SIZE
    /\ ret.deck = <<0, 1, 2>>
    /\ m_deck = <<0, 1, 2>>
    /\ m_bIsDeckOdd

\* C4: right after GenerateDeck(size) with size < 3 the returned sequence and
\* the deck the engine owns both have length 0.
C4_UndersizedIsEmpty ==
    (ret.op = "GenerateDeck" /\ ret.size < MIN_DECK_SIZE) =>
        /\ Len(ret.deck) = 0
        /\ Len(m_deck) = 0

\* C5: on the 52-card deck in ascending order RestoreDeck(OUTSHUFFLE) returns
\* 8 and RestoreDeck(INSHUFFLE) returns 52.
C5_ClassicOrders ==
    (ret.op = "RestoreDeck" /\ m_deckSize = 52) =>
        /\ ret.kind = "OUTSHUFFLE" => ret.count = 8
        /\ ret.kind = "INSHUFFLE" => ret.count = 52

\* RestoreDeck(INSHUFFLE) has returned 52 on the 52-card deck.
C5_Witness ==
    /\ pc = "idle"
    /\ ret.op = "RestoreDeck"
    /\ ret.kind = "INSHUFFLE"
    /\ ret.count = 52
    /\ applied = 52
    /\ m_deckSize = 52

RECURSIVE OrderOfTwo(_, _, _)
\* The least k >= 1 with 2^k = 1 modulo m (m odd, m >= 3), searched from
\* power = 2^k modulo m.
OrderOfTwo(m, power, k) ==
    IF power % m = 1 THEN k ELSE OrderOfTwo(m, (2 * power) % m, k + 1)

\* The number of perfect shuffles that restore N cards: the order of 2 modulo
\* N for odd N, modulo N - 1 for an out-shuffle and N + 1 for an in-shuffle of
\* even N; the inverse kinds have the orders of the kinds they invert.
RiffleOrder(shuffleType, N) ==
    LET m == IF N % 2 = 1 THEN N
             ELSE IF shuffleType \in {"OUTSHUFFLE", "INV_OUTSHUFFLE"}
                  THEN N - 1 ELSE N + 1
    IN  OrderOfTwo(m, 2, 1)

\* C6 as claimed: RestoreDeck with a riffle kind returns a count that depends
\* on N alone, whatever the arrangement it was called on.
C6_CountOfSizeAlone ==
    (ret.op = "RestoreDeck" /\ ret.kind \in Riffles /\ Generated) =>
        ret.count = RiffleOrder(ret.kind, m_deckSize)

\* C6 as amended: RestoreDeck with a riffle kind, called on a deck in ascending
\* order, returns, and its count is the function RiffleOrder of the kind and N;
\* called on another arrangement it returns less, when it returns.
C6_FromCanonical ==
    /\ []( (ret.op = "RestoreDeck" /\ ret.kind \in Riffles /\ Generated) =>
              IF entryRestored
              THEN ret.count = RiffleOrder(ret.kind, m_deckSize)
              ELSE ret.count < RiffleOrder(ret.kind, m_deckSize) )
    /\ (pc = "restore" /\ shuffle \in Riffles /\ Generated /\ entryRestored)
          ~> (pc = "idle" /\ ret.op = "RestoreDeck")

\* RestoreDeck(INV_INSHUFFLE), called on 0, 1, 2, 3, has returned 4.
C6_Witness ==
    /\ pc = "idle"
    /\ ret.op = "RestoreDeck"
    /\ ret.kind = "INV_INSHUFFLE"
    /\ entryRestored
    /\ m_deckSize = 4
    /\ ret.count = 4

RECURSIVE LeastRestoring(_, _, _, _)
\* The least k >= count + 1 such that k - count further applications of the
\* riffle kind bring deck to ascending order.
LeastRestoring(shuffleType, deck, isOdd, count) ==
    LET next == CHOOSE d \in Shuffled(shuffleType, deck, Len(deck), isOdd) : TRUE
    IN  IF IsCanonical(next) THEN count + 1
        ELSE LeastRestoring(shuffleType, next, isOdd, count + 1)

\* C7: RestoreDeck on a deck of size N >= 3 applies the shuffle at least once,
\* goes on exactly while the deck is not in ascending order, and returns the
\* number of applications it made with the deck in ascending order; called on
\* the ascending deck with a riffle kind, that number is the least k >= 1 such
\* that k applications restore the deck.
C7_RestoreLoop ==
    /\ (pc = "restore" /\ Generated) =>
          /\ applied = nShuffles
          /\ nShuffles >= 1 => ~IsCanonical(m_deck)
    /\ (ret.op = "RestoreDeck" /\ Generated) =>
          /\ ret.count >= 1
          /\ ret.count = applied
          /\ IsCanonical(m_deck)
          /\ (entryRestored /\ ret.kind \in Riffles) =>
                ret.count = LeastRestoring(ret.kind, m_deck, m_bIsDeckOdd, 0)

\* RestoreDeck(OUTSHUFFLE), called on 0, 1, 2, has returned after two shuffles.
C7_Witness ==
    /\ pc = "idle"
    /\ ret.op = "RestoreDeck"
    /\ ret.kind = "OUTSHUFFLE"
    /\ entryRestored
    /\ m_deck = <<0, 1, 2>>
    /\ ret.count = 2
    /\ applied = 2

\* C10: RestoreDeck with a randomized kind on a deck of size N >= 3 can always
\* make one more application that leaves the deck out of order and the loop
\* running, so no number of applications is the last; when it returns, the
\* deck is in ascending order and the count is the number of applications.
C10_RandomizedLoop ==
    /\ (pc = "restore" /\ shuffle \in Randomized /\ Generated
            /\ nShuffles < MaxShuffles) =>
          ENABLED (RestoreStep /\ pc' = "restore" /\ ~IsCanonical(m_deck')
                     /\ nShuffles' = nShuffles + 1)
    /\ (pc = "restore" /\ shuffle \in Randomized /\ Generated /\ nShuffles >= 1) =>
          ~IsCanonical(m_deck)
    /\ (ret.op = "RestoreDeck" /\ ret.kind \in Randomized /\ Generated) =>
          /\ IsCanonical(m_deck)
          /\ ret.count = applied

\* RestoreDeck(STL_SHUFFLE) is still running after MaxShuffles applications.
C10_Witness ==
    /\ pc = "restore"
    /\ shuffle = "STL_SHUFFLE"
    /\ nShuffles = MaxShuffles
    /\ applied = MaxShuffles
    /\ ~IsCanonical(m_deck)

\* The interleave of the claim, from the deck before the call: First is
\* old[0..half1), Second is old[half1..N), position 2i and 2i+1 take the i-th
\* items of the two halves for i < m, and the last position of an odd deck
\* takes the last item of the longer half.
ReferenceInterleave(shuffleType, old) ==
    LET N == Len(old)
        out == shuffleType = "OUTSHUFFLE"
        half1 == IF out THEN (N + 1) \div 2 ELSE N \div 2
        half2 == N - half1
        m == IF half1 < half2 THEN half1 ELSE half2
        First == [i \in 0..(half1 - 1) |-> old[i + 1]]
        Second == [i \in 0..(half2 - 1) |-> old[half1 + i + 1]]
    IN  [p \in 1..N |->
            LET q == p - 1
                i == q \div 2
            IN  IF q < 2 * m
                THEN IF (q % 2 = 0) = out THEN First[i] ELSE Second[i]
                ELSE IF out THEN First[half1 - 1] ELSE Second[half2 - 1]]

\* C8: every recorded OUTSHUFFLE and INSHUFFLE leaves the reference interleave
\* of the deck it found; 0,1,2,3,4 becomes 0,3,1,4,2 under OUTSHUFFLE and
\* 0,1,2,3,4,5 becomes 3,0,4,1,5,2 under INSHUFFLE.
C8_Interleave ==
    \A n \in 1..Len(trail) :
        /\ trail[n] \in {"OUTSHUFFLE", "INSHUFFLE"} =>
              DeckAfter(n) = ReferenceInterleave(trail[n], pre[n])
        /\ (trail[n] = "OUTSHUFFLE" /\ pre[n] = <<0, 1, 2, 3, 4>>) =>
              DeckAfter(n) = <<0, 3, 1, 4, 2>>
        /\ (trail[n] = "INSHUFFLE" /\ pre[n] = <<0, 1, 2, 3, 4, 5>>) =>
              DeckAfter(n) = <<3, 0, 4, 1, 5, 2>>

\* INSHUFFLE has turned 0,1,2,3,4,5 into 3,0,4,1,5,2.
C8_Witness ==
    /\ trail = <<"INSHUFFLE">>
    /\ pre = << <<0, 1, 2, 3, 4, 5>> >>
    /\ m_deck = <<3, 0, 4, 1, 5, 2>>

\* The items INV_OUTSHUFFLE scans, in order: the whole deck when N is even,
\* positions 1..N-1 when N is odd.
Scanned(old) ==
    IF Len(old) % 2 = 1 THEN SubSeq(old, 2, Len(old)) ELSE old

\* The first, third, fifth ... scanned items.
ScanA(old) == [k \in 1..(Len(Scanned(old)) \div 2) |-> Scanned(old)[2 * k - 1]]

\* The second, fourth ... scanned items.
ScanB(old) == [k \in 1..(Len(Scanned(old)) \div 2) |-> Scanned(old)[2 * k]]

\* The unscanned position 0 of an odd deck.
Kept(old) == IF Len(old) % 2 = 1 THEN <<old[1]>> ELSE <<>>

====
